---- MODULE Spec2Model ----
(***************************************************************************)
(* Model of sanic_ext/extensions/health/monitor.py: the heartbeat senders  *)
(* (health_check / send_healthy), the bounded health queue, the per-worker *)
(* HealthState and the HealthMonitor loop with its stop flag.              *)
(*                                                                         *)
(* Time is the wall clock read by datetime.now(), in whole seconds.        *)
(***************************************************************************)
EXTENDS Integers, Sequences, FiniteSets, TLC

VARIABLES
    now,            \* the wall clock (datetime.now())
    health_queue,   \* the shared queue: a sequence of <<name, timestamp>>
    health_state,   \* HealthMonitor.__call__'s dict: name -> HealthState
    run,            \* HealthMonitor.run
    mpc,            \* where the monitor is in __call__
    idx,            \* position of the for loop over health_state.values()
    published,      \* the names handed to monitor_publisher.send, in order
    publishedAt,    \* per worker, when it was last published (silent runs only)
    stales,         \* per worker, the clock readings at which check raised Stale
    lag,            \* per worker, the checks made since it fell MAX_MISSES windows behind
    spc,            \* where each sender's health_check task is
    sent,           \* health_check's local `sent`, per sender
    stage,          \* app.state.stage of each sender's worker
    outcome,        \* what each sender's latest send_healthy call did
    afterStop,      \* what the monitor did since the stop flag was first set
    iterated,       \* whether the loop finished an iteration since the last timed tick
    call            \* the latest direct call of a HealthState method and its arguments

vars == <<now, health_queue, health_state, run, mpc, idx, published, publishedAt,
          stales, lag, spc, sent, stage, outcome, afterStop, iterated, call>>

---------------------------------------------------------------------------
(* Program constants (class attributes of HealthMonitor). *)
MAX_MISSES == 3
REPORT_INTERVAL == 5
MISSED_THRESHHOLD == 10

(* Bounds of the exploration. *)
MaxTime == 37       \* last clock reading explored
MaxBoot == 0        \* latest clock reading at which a task starts
SendUntil == 6      \* latest clock reading at which a worker still sends
BurstTime == 12     \* last clock reading of the burst exploration
LiveTime == 31      \* last clock reading of the timed exploration
UnitTime == 31      \* largest clock reading given to a HealthState method
UtcOffset == 2      \* local time minus UTC, in seconds
SilentTime == 62    \* last clock reading of the silent-worker exploration

(* HealthState.last's default. *)
None == -1

(* process_names handed to HealthMonitor.__call__, in dict order. *)
process_names == <<"w1", "w2">>

(* The names that worker processes put on the queue (app.m.name): the two *)
(* tracked workers and one name that is not in process_names.             *)
Senders == {"w1", "w2", "w9"}

(* app.state.workers *)
workers == Len(process_names)

(* Manager().Queue(maxsize=app.state.workers * 2) *)
maxsize == workers * 2

Tracked == {process_names[i] : i \in 1..Len(process_names)}

---------------------------------------------------------------------------
(* datetime.timestamp() and datetime.fromtimestamp(): naive local time to  *)
(* epoch seconds and back, at the clock's whole-second resolution and with *)
(* a fixed UTC offset.                                                     *)
timestamp(t) == t - UtcOffset

fromtimestamp(ts) == ts + UtcOffset

(* A faulty report that never moves last backwards. *)
reportMonotone(state, ts) ==
    [state EXCEPT !.last = IF fromtimestamp(ts) > @ THEN fromtimestamp(ts) ELSE @,
                  !.misses = 0]

(* A faulty report that clears the misses without re-basing last. *)
reportKeepLast(state, ts) ==
    [state EXCEPT !.misses = 0]

(* HealthState.report *)
report(state, ts) ==
    [state EXCEPT !.last = fromtimestamp(ts), !.misses = 0]

(* A faulty missed that raises Stale one miss late. *)
missedLate(state) ==
    LET m == state.misses + 1
    IN  [state |-> [state EXCEPT !.misses = m], stale |-> (m > MAX_MISSES)]

(* HealthState.missed: the new state, and whether Stale is raised. *)
missed(state) ==
    LET m == state.misses + 1
    IN  [state |-> [state EXCEPT !.misses = m], stale |-> (m >= MAX_MISSES)]

(* A faulty threshold that does not grow with the misses. *)
threshholdFlat(state) == MISSED_THRESHHOLD

(* threshhold of HealthState.check, in seconds *)
threshhold(state) == MISSED_THRESHHOLD * (state.misses + 1)

(* A faulty check that re-bases last on every miss. *)
checkRebase(state, t) ==
    IF state.last = None
    THEN [state |-> state, stale |-> FALSE]
    ELSE IF state.last < t - threshhold(state)
         THEN [state |-> [missed(state).state EXCEPT !.last = t],
               stale |-> missed(state).stale]
         ELSE [state |-> state, stale |-> FALSE]

(* A faulty check without the guard on an unset last. *)
checkNoGuard(state, t) ==
    IF state.last < t - threshhold(state)
    THEN missed(state)
    ELSE [state |-> state, stale |-> FALSE]

(* HealthState.check at clock reading t *)
check(state, t) ==
    IF state.last = None
    THEN [state |-> state, stale |-> FALSE]
    ELSE IF state.last < t - threshhold(state)
         THEN missed(state)
         ELSE [state |-> state, stale |-> FALSE]

(* A faulty reset that clears the misses only. *)
resetMissesOnly(state, t) ==
    [state EXCEPT !.misses = 0]

(* HealthState.reset at clock reading t *)
reset(state, t) ==
    [state EXCEPT !.misses = 0, !.last = t]

(* A faulty put that evicts the oldest heartbeat of a full queue. *)
put_evicting(q, item) ==
    IF Len(q) >= maxsize
    THEN [queue |-> Append(Tail(q), item), full |-> FALSE]
    ELSE [queue |-> Append(q, item), full |-> FALSE]

(* Queue.put_nowait: the new queue, and whether Full was raised. *)
put_nowait(q, item) ==
    IF Len(q) >= maxsize
    THEN [queue |-> q, full |-> TRUE]
    ELSE [queue |-> Append(q, item), full |-> FALSE]

(* send_healthy: the new queue, and what became of the heartbeat. *)
send_healthy(name, q, t) ==
    LET r == put_nowait(q, <<name, timestamp(t)>>)
    IN  [queue |-> r.queue, outcome |-> IF r.full THEN "full" ELSE "put"]

---------------------------------------------------------------------------
NoAfter == [signalled |-> FALSE, gets |-> 0, passes |-> 0, sends |-> <<>>]

NoCall == [op |-> "none"]

Init ==
    /\ now = 0
    /\ health_queue = <<>>
    /\ health_state = <<>>
    /\ run = TRUE
    /\ mpc = "start"
    /\ idx = 0
    /\ published = <<>>
    /\ publishedAt = [n \in Tracked |-> None]
    /\ stales = [n \in Tracked |-> <<>>]
    /\ lag = [n \in Tracked |-> 0]
    /\ spc = [s \in Senders |-> "idle"]
    /\ sent = [s \in Senders |-> None]
    /\ stage = [s \in Senders |-> "SERVING"]
    /\ outcome = [s \in Senders |-> "none"]
    /\ afterStop = NoAfter
    /\ iterated = FALSE
    /\ call = NoCall

senderVars == <<spc, sent, stage, outcome>>
monitorVars == <<health_state, run, mpc, idx, published, publishedAt, stales, lag, afterStop,
                 iterated>>

(* The clock advances by a second. *)
Tick(limit) ==
    /\ now < limit
    /\ now' = now + 1
    /\ UNCHANGED <<health_queue, senderVars, monitorVars, call>>

---------------------------------------------------------------------------
(* health_check, line 70: the task starts and takes its first reading. *)
SenderStart(s, boot) ==
    /\ spc[s] = "idle"
    /\ now <= boot
    /\ spc' = [spc EXCEPT ![s] = "loop"]
    /\ sent' = [sent EXCEPT ![s] = now]
    /\ UNCHANGED <<now, health_queue, stage, outcome, monitorVars, call>>

(* A faulty sender that sends as soon as the interval is reached. *)
SenderSendEarly(s, until) ==
    /\ spc[s] = "loop"
    /\ stage[s] = "SERVING"
    /\ sent[s] <= now - REPORT_INTERVAL
    /\ now <= until
    /\ LET r == send_healthy(s, health_queue, now)
       IN  /\ health_queue' = r.queue
           /\ outcome' = [outcome EXCEPT ![s] = r.outcome]
    /\ sent' = [sent EXCEPT ![s] = now]
    /\ UNCHANGED <<now, spc, stage, monitorVars, call>>

(* A faulty sender that goes on whatever the stage of its worker. *)
SenderSendAnyStage(s, until) ==
    /\ spc[s] = "loop"
    /\ sent[s] < now - REPORT_INTERVAL
    /\ now <= until
    /\ LET r == send_healthy(s, health_queue, now)
       IN  /\ health_queue' = r.queue
           /\ outcome' = [outcome EXCEPT ![s] = r.outcome]
    /\ sent' = [sent EXCEPT ![s] = now]
    /\ UNCHANGED <<now, spc, stage, monitorVars, call>>

(* health_check, lines 72-77, an iteration whose interval has elapsed:   *)
(* send_healthy puts (name, now) on the queue or swallows Full.          *)
SenderSend(s, until) ==
    /\ spc[s] = "loop"
    /\ stage[s] = "SERVING"
    /\ sent[s] < now - REPORT_INTERVAL
    /\ now <= until
    /\ LET r == send_healthy(s, health_queue, now)
       IN  /\ health_queue' = r.queue
           /\ outcome' = [outcome EXCEPT ![s] = r.outcome]
    /\ sent' = [sent EXCEPT ![s] = now]
    /\ UNCHANGED <<now, spc, stage, monitorVars, call>>

(* health_check, line 72: the while condition fails and the task ends. *)
SenderExit(s) ==
    /\ spc[s] = "loop"
    /\ stage[s] # "SERVING"
    /\ spc' = [spc EXCEPT ![s] = "done"]
    /\ UNCHANGED <<now, health_queue, sent, stage, outcome, monitorVars, call>>

(* The worker leaves ServerStage.SERVING. *)
LeaveServing(s) ==
    /\ stage[s] = "SERVING"
    /\ stage' = [stage EXCEPT ![s] = "STOPPING"]
    /\ UNCHANGED <<now, health_queue, spc, sent, outcome, monitorVars, call>>

---------------------------------------------------------------------------
Running == mpc \in {"while", "get", "check", "reset", "send"}

(* A faulty seed: the dataclass default last = None. *)
InitialStateUnset(name, t) == [name |-> name, last |-> None, misses |-> 0]

(* line 118: HealthState(last=now, name=process_name) *)
InitialState(name, t) == [name |-> name, last |-> t, misses |-> 0]

(* __call__, lines 113-120: handlers installed, one HealthState per name. *)
MonitorStart(boot) ==
    /\ mpc = "start"
    /\ now <= boot
    /\ health_state' = [n \in Tracked |-> InitialState(n, now)]
    /\ mpc' = "while"
    /\ UNCHANGED <<now, health_queue, run, idx, published, publishedAt, stales, lag, afterStop,
                   iterated, senderVars, call>>

(* A faulty loop test that also goes on while heartbeats are queued. *)
MonitorWhileDrain ==
    /\ mpc = "while"
    /\ mpc' = IF run \/ health_queue # <<>> THEN "get" ELSE "done"
    /\ UNCHANGED <<now, health_queue, health_state, run, idx, published, publishedAt, stales,
                   lag, afterStop, iterated, senderVars, call>>

(* line 121: while self.run *)
MonitorWhile ==
    /\ mpc = "while"
    /\ mpc' = IF run THEN "get" ELSE "done"
    /\ UNCHANGED <<now, health_queue, health_state, run, idx, published, publishedAt, stales,
                   lag, afterStop, iterated, senderVars, call>>

CountGet(a) == IF a.signalled THEN [a EXCEPT !.gets = @ + 1] ELSE a

CountPass(a) == IF a.signalled THEN [a EXCEPT !.passes = @ + 1] ELSE a

CountSend(a, n) == IF a.signalled THEN [a EXCEPT !.sends = Append(@, n)] ELSE a

(* A faulty routing: the dequeued heartbeat is reported to every state. *)
MonitorGetAll ==
    /\ mpc = "get"
    /\ afterStop' = CountGet(afterStop)
    /\ IF health_queue = <<>>
       THEN /\ mpc' = "check"
            /\ idx' = 1
            /\ UNCHANGED <<health_queue, health_state, lag>>
       ELSE LET name == Head(health_queue)[1]
                ts == Head(health_queue)[2]
            IN  /\ health_queue' = Tail(health_queue)
                /\ IF name \in DOMAIN health_state
                   THEN /\ health_state' =
                              [n \in DOMAIN health_state |->
                                 report(health_state[n], ts)]
                        /\ lag' = [n \in DOMAIN lag |-> 0]
                        /\ mpc' = "check"
                        /\ idx' = 1
                   ELSE /\ mpc' = "raised"
                        /\ idx' = 0
                        /\ UNCHANGED <<health_state, lag>>
    /\ UNCHANGED <<now, run, published, publishedAt, stales, iterated, senderVars, call>>

(* lines 122-127: get(timeout=0.05); Empty is swallowed, otherwise the   *)
(* heartbeat is routed by health_state[name], which raises KeyError for  *)
(* a name that is not a key.                                             *)
MonitorGet ==
    /\ mpc = "get"
    /\ afterStop' = CountGet(afterStop)
    /\ IF health_queue = <<>>
       THEN /\ mpc' = "check"
            /\ idx' = 1
            /\ UNCHANGED <<health_queue, health_state, lag>>
       ELSE LET name == Head(health_queue)[1]
                ts == Head(health_queue)[2]
            IN  /\ health_queue' = Tail(health_queue)
                /\ IF name \in DOMAIN health_state
                   THEN /\ health_state' =
                              [health_state EXCEPT ![name] = report(@, ts)]
                        /\ lag' = [lag EXCEPT ![name] = 0]
                        /\ mpc' = "check"
                        /\ idx' = 1
                   ELSE /\ mpc' = "raised"
                        /\ idx' = 0
                        /\ UNCHANGED <<health_state, lag>>
    /\ UNCHANGED <<now, run, published, publishedAt, stales, iterated, senderVars, call>>

(* line 129: the for loop moves on, or the iteration is over. *)
Advance(i) ==
    IF i < Len(process_names)
    THEN [mpc |-> "check", idx |-> i + 1, iterated |-> iterated]
    ELSE [mpc |-> "while", idx |-> 0, iterated |-> TRUE]

(* Whether the worker is MAX_MISSES whole windows behind at reading t. *)
Behind(state, t) ==
    state.last # None /\ t - state.last > MAX_MISSES * MISSED_THRESHHOLD

(* lines 130-132: state.check() on the idx-th HealthState. *)
MonitorCheck ==
    /\ mpc = "check"
    /\ LET name == process_names[idx]
           r == check(health_state[name], now)
       IN  /\ health_state' = [health_state EXCEPT ![name] = r.state]
           /\ stales' = [stales EXCEPT
                           ![name] = IF r.stale THEN Append(@, now) ELSE @]
           /\ lag' = [lag EXCEPT
                        ![name] = IF Behind(health_state[name], now)
                                  THEN @ + 1 ELSE 0]
           /\ IF r.stale
              THEN /\ mpc' = "reset"
                   /\ idx' = idx
                   /\ iterated' = iterated
              ELSE /\ mpc' = Advance(idx).mpc
                   /\ idx' = Advance(idx).idx
                   /\ iterated' = Advance(idx).iterated
    /\ afterStop' = IF idx = 1 THEN CountPass(afterStop) ELSE afterStop
    /\ UNCHANGED <<now, health_queue, run, published, publishedAt, senderVars, call>>

(* line 133: state.reset() *)
MonitorReset ==
    /\ mpc = "reset"
    /\ health_state' =
           [health_state EXCEPT ![process_names[idx]] = reset(@, now)]
    /\ lag' = [lag EXCEPT ![process_names[idx]] = 0]
    /\ mpc' = "send"
    /\ UNCHANGED <<now, health_queue, run, idx, published, publishedAt, stales, afterStop,
                   iterated, senderVars, call>>

(* A faulty handler that gives up the rest of the for loop. *)
MonitorSendBreak ==
    /\ mpc = "send"
    /\ published' = Append(published, health_state[process_names[idx]].name)
    /\ afterStop' = CountSend(afterStop, process_names[idx])
    /\ mpc' = "while"
    /\ idx' = 0
    /\ iterated' = TRUE
    /\ UNCHANGED <<now, health_queue, health_state, run, publishedAt, stales, lag,
                   senderVars, call>>

(* A faulty publish: the first tracked name whatever the stale one. *)
MonitorSendFirst ==
    /\ mpc = "send"
    /\ published' = Append(published, process_names[1])
    /\ afterStop' = CountSend(afterStop, process_names[1])
    /\ mpc' = Advance(idx).mpc
    /\ idx' = Advance(idx).idx
    /\ iterated' = Advance(idx).iterated
    /\ UNCHANGED <<now, health_queue, health_state, run, publishedAt, stales, lag,
                   senderVars, call>>

(* line 134: self.monitor_publisher.send(state.name) *)
MonitorSend ==
    /\ mpc = "send"
    /\ published' = Append(published, health_state[process_names[idx]].name)
    /\ afterStop' = CountSend(afterStop, process_names[idx])
    /\ mpc' = Advance(idx).mpc
    /\ idx' = Advance(idx).idx
    /\ iterated' = Advance(idx).iterated
    /\ UNCHANGED <<now, health_queue, health_state, run, publishedAt, stales, lag,
                   senderVars, call>>

(* line 134 again, with the clock reading of the publish recorded. *)
MonitorSendAt ==
    /\ mpc = "send"
    /\ published' = Append(published, health_state[process_names[idx]].name)
    /\ publishedAt' = [publishedAt EXCEPT ![process_names[idx]] = now]
    /\ afterStop' = CountSend(afterStop, process_names[idx])
    /\ mpc' = Advance(idx).mpc
    /\ idx' = Advance(idx).idx
    /\ iterated' = Advance(idx).iterated
    /\ UNCHANGED <<now, health_queue, health_state, run, stales, lag, senderVars,
                   call>>

(* A faulty handler that flips the flag. *)
stopToggle ==
    /\ Running
    /\ run' = ~run
    /\ afterStop' = [afterStop EXCEPT !.signalled = TRUE]
    /\ UNCHANGED <<now, health_queue, health_state, mpc, idx, published, publishedAt, stales,
                   lag, iterated, senderVars, call>>

(* A faulty handler that leaves the flag as it is. *)
stopKeepsFlag ==
    /\ Running
    /\ run' = run
    /\ afterStop' = [afterStop EXCEPT !.signalled = TRUE]
    /\ UNCHANGED <<now, health_queue, health_state, mpc, idx, published, publishedAt, stales,
                   lag, iterated, senderVars, call>>

(* HealthMonitor.stop, run by SIGINT or SIGTERM once lines 113-114 ran. *)
stop ==
    /\ Running
    /\ run' = FALSE
    /\ afterStop' = [afterStop EXCEPT !.signalled = TRUE]
    /\ UNCHANGED <<now, health_queue, health_state, mpc, idx, published, publishedAt, stales,
                   lag, iterated, senderVars, call>>

---------------------------------------------------------------------------
(* The monitor process: one step of HealthMonitor.__call__. *)
Monitor(boot) ==
    \/ MonitorStart(boot)
    \/ MonitorWhile
    \/ MonitorGet
    \/ MonitorCheck
    \/ MonitorReset
    \/ MonitorSend

(* The whole system: the workers send for a while and may then fall      *)
(* silent, the monitor polls, the signal may arrive at any point.        *)
Next ==
    \/ Tick(MaxTime)
    \/ \E s \in Senders : SenderStart(s, MaxBoot)
    \/ \E s \in Senders : SenderSend(s, SendUntil)
    \/ Monitor(MaxBoot)
    \/ stop

Spec == Init /\ [][Next]_vars

---------------------------------------------------------------------------
(* Fair scheduling: the monitor process keeps running (get has a        *)
(* timeout, nothing in the loop blocks) and the clock keeps advancing.   *)
(* The task of the last tracked worker never starts: it is silent from   *)
(* boot.                                                                 *)
FairSenders == Senders \ {process_names[Len(process_names)]}

NextFair ==
    \/ Tick(MaxTime)
    \/ \E s \in FairSenders : SenderStart(s, MaxBoot)
    \/ \E s \in FairSenders : SenderSend(s, SendUntil)
    \/ Monitor(MaxBoot)
    \/ stop

FairSpec ==
    /\ Init
    /\ [][NextFair]_vars
    /\ WF_vars(Monitor(MaxBoot))
    /\ WF_vars(Tick(MaxTime))

---------------------------------------------------------------------------
(* A burst: the workers keep sending on every interval while the monitor *)
(* is as slow as it likes, so the queue fills.  The run is too short for *)
(* a Stale, so the monitor's steps are those of the loop outside the     *)
(* except branch (lines 113-131).                                        *)
MonitorPolling(boot) ==
    \/ MonitorStart(boot)
    \/ MonitorWhile
    \/ MonitorGet
    \/ MonitorCheck

NextBurst ==
    \/ Tick(BurstTime)
    \/ \E s \in Senders : SenderStart(s, MaxBoot)
    \/ \E s \in Senders : SenderSend(s, BurstTime)
    \/ MonitorPolling(MaxBoot)

SpecBurst == Init /\ [][NextBurst]_vars

---------------------------------------------------------------------------
(* Timed runs.  health_check polls every 0.1 s and the monitor's get     *)
(* waits at most 0.05 s, so within a second a serving worker that is due *)
(* has sent and the monitor loop has finished an iteration; the monitor  *)
(* and the tracked workers' tasks start within MaxBoot seconds.  A       *)
(* tracked worker may leave the serving stage at any time and is silent  *)
(* from then on.                                                         *)
Due(s) ==
    spc[s] = "loop" /\ stage[s] = "SERVING" /\ sent[s] < now - REPORT_INTERVAL

Booted == mpc # "start" /\ \A n \in Tracked : spc[n] # "idle"

TickLive(limit) ==
    /\ now < limit
    /\ now < MaxBoot \/ Booted
    /\ \A s \in Senders : ~Due(s)
    /\ Running => iterated
    /\ now' = now + 1
    /\ iterated' = FALSE
    /\ UNCHANGED <<health_queue, senderVars, health_state, run, mpc, idx,
                   published, publishedAt, stales, lag, afterStop, call>>

NextLive ==
    \/ TickLive(LiveTime)
    \/ \E s \in Senders : SenderStart(s, MaxBoot)
    \/ \E s \in Senders : SenderSend(s, LiveTime)
    \/ \E s \in Tracked : SenderExit(s)
    \/ \E s \in Tracked : LeaveServing(s)
    \/ Monitor(MaxBoot)
    \/ stop

SpecLive == Init /\ [][NextLive]_vars

---------------------------------------------------------------------------
(* Direct calls of the HealthState methods on an arbitrary state. *)
UnitName == process_names[1]

UnitStates ==
    [name : {UnitName}, last : {None} \cup (0..UnitTime), misses : 0..MAX_MISSES]

InitUnit ==
    /\ now = 0
    /\ health_queue = <<>>
    /\ health_state \in [{UnitName} -> UnitStates]
    /\ run = TRUE
    /\ mpc = "unit"
    /\ idx = 0
    /\ published = <<>>
    /\ publishedAt = [n \in Tracked |-> None]
    /\ stales = [n \in Tracked |-> <<>>]
    /\ lag = [n \in Tracked |-> 0]
    /\ spc = [s \in Senders |-> "idle"]
    /\ sent = [s \in Senders |-> None]
    /\ stage = [s \in Senders |-> "SERVING"]
    /\ outcome = [s \in Senders |-> "none"]
    /\ afterStop = NoAfter
    /\ iterated = FALSE
    /\ call = NoCall

unitFrame == <<now, health_queue, run, mpc, idx, published, publishedAt, stales, lag,
               senderVars, afterStop, iterated>>

(* report() of the heartbeat a sender stamped at clock reading c *)
UnitReport(c) ==
    /\ call = NoCall
    /\ health_state' = [health_state EXCEPT ![UnitName] = report(@, timestamp(c))]
    /\ call' = [op |-> "report", arg |-> c, before |-> health_state[UnitName],
                raised |-> FALSE]
    /\ UNCHANGED unitFrame

(* check() at clock reading t *)
UnitCheck(t) ==
    /\ call = NoCall
    /\ LET r == check(health_state[UnitName], t)
       IN  /\ health_state' = [health_state EXCEPT ![UnitName] = r.state]
           /\ call' = [op |-> "check", arg |-> t, before |-> health_state[UnitName],
                       raised |-> r.stale]
    /\ UNCHANGED unitFrame

(* reset() at clock reading t *)
UnitReset(t) ==
    /\ call = NoCall
    /\ health_state' = [health_state EXCEPT ![UnitName] = reset(@, t)]
    /\ call' = [op |-> "reset", arg |-> t, before |-> health_state[UnitName],
                raised |-> FALSE]
    /\ UNCHANGED unitFrame

NextUnit ==
    \/ \E c \in 0..UnitTime : UnitReport(c)
    \/ \E t \in 0..UnitTime : UnitCheck(t)
    \/ \E t \in 0..UnitTime : UnitReset(t)

SpecUnit == InitUnit /\ [][NextUnit]_vars

---------------------------------------------------------------------------
(* Silent workers: no health_check task ever starts, the monitor polls   *)
(* for long enough to escalate the same worker twice, and the clock      *)
(* reading of each publish is recorded.                                  *)
MonitorSilent(boot) ==
    \/ MonitorStart(boot)
    \/ MonitorWhile
    \/ MonitorGet
    \/ MonitorCheck
    \/ MonitorReset
    \/ MonitorSendAt

(* The clock advances where the monitor waits: before it starts, in the *)
(* get (timeout 0.05 s) and in the publisher's send.                    *)
TickWaiting(limit) ==
    /\ mpc \in {"start", "get", "send"}
    /\ Tick(limit)

NextSilent ==
    \/ TickWaiting(SilentTime)
    \/ MonitorSilent(MaxBoot)
    \/ stop

SpecSilent == Init /\ [][NextSilent]_vars

---------------------------------------------------------------------------
(* Properties. *)

(* Number of times n occurs in seq. *)
Count(seq, n) == Cardinality({i \in 1..Len(seq) : seq[i] = n})

(* The loop is inside the except branch (lines 133-134) for worker n. *)
Handling(n) == mpc \in {"reset", "send"} /\ process_names[idx] = n

(* Position of a tracked name in process_names. *)
Position(n) == CHOOSE i \in 1..Len(process_names) : process_names[i] = n

(* C1: a step that records a miss for a worker with misses = k and last   *)
(* accepted heartbeat time L happens only when now - L > T * (k + 1) and  *)
(* leaves L unchanged; Stale is raised exactly by the step that takes     *)
(* misses to MAX_MISSES, hence only when now - L > MAX_MISSES * T.        *)
C1_GrowingThreshold ==
    [][\A n \in (DOMAIN health_state) \cap (DOMAIN health_state') :
         LET s == health_state[n]
             t == health_state'[n]
             miss == (t.misses = s.misses + 1)
             raised == (stales'[n] # stales[n])
         IN  /\ miss => /\ now - s.last > MISSED_THRESHHOLD * (s.misses + 1)
                        /\ t.last = s.last
             /\ raised <=> (miss /\ t.misses = MAX_MISSES)
             /\ raised => now - s.last > MAX_MISSES * MISSED_THRESHHOLD
      ]_vars

(* C1 witness: Stale has just been raised for a worker whose last report  *)
(* was accepted MAX_MISSES * T + 1 seconds ago (Scenario A's t = 31).     *)
C1_Witness ==
    \E n \in DOMAIN health_state :
        /\ mpc = "reset" /\ process_names[idx] = n
        /\ health_state[n].misses = MAX_MISSES
        /\ health_state[n].last > 0
        /\ now - health_state[n].last = MAX_MISSES * MISSED_THRESHHOLD + 1

(* C2: for every worker the number of publishes equals the number of     *)
(* Stale raised for it, the one being handled at the moment excepted;    *)
(* only tracked names are published.                                     *)
C2_OnePublishPerStale ==
    /\ \A n \in Tracked :
          Count(published, n) + (IF Handling(n) THEN 1 ELSE 0) = Len(stales[n])
    /\ \A i \in 1..Len(published) : published[i] \in Tracked

(* C2 witness: both workers went stale and each was published once. *)
C2_Witness ==
    /\ mpc = "while"
    /\ \A n \in Tracked : Count(published, n) = 1 /\ Len(stales[n]) = 1

C4_NoFalsePositive ==
    \A n \in DOMAIN health_state :
        stage[n] = "SERVING" =>
            /\ health_state[n].misses = 0
            /\ stales[n] = <<>>
            /\ Count(published, n) = 0

(* C4 witness: at the end of the run a serving worker has reported       *)
(* recently and is clean while the other, silent one was published.      *)
C4_Witness ==
    \E n \in DOMAIN health_state :
        /\ now = LiveTime /\ Running
        /\ stage[n] = "SERVING"
        /\ now - health_state[n].last <= REPORT_INTERVAL + 1
        /\ health_state[n].last > MISSED_THRESHHOLD
        /\ \E m \in Tracked : m # n /\ Count(published, m) = 1

(* C5 as claimed: dequeuing a heartbeat whose name is not in             *)
(* process_names does not fail, changes no HealthState and goes on to    *)
(* the checks.                                                           *)
C5_UnknownIgnored ==
    [][(/\ mpc = "get" /\ mpc' # "get"
        /\ health_queue # <<>>
        /\ Head(health_queue)[1] \notin Tracked)
       => (mpc' = "check" /\ health_state' = health_state)]_vars

(* C6: a send on a full queue leaves the queue and every HealthState and *)
(* the monitor as they are, and the sender stays in its loop with its    *)
(* interval restarted.                                                   *)
C6_DropOnFull ==
    [][\A s \in Senders :
         (sent'[s] # sent[s] /\ spc[s] = "loop" /\ Len(health_queue) >= maxsize)
         => /\ health_queue' = health_queue
            /\ health_state' = health_state
            /\ mpc' = mpc
            /\ spc'[s] = "loop" /\ stage'[s] = stage[s]
            /\ sent'[s] = now
            /\ outcome'[s] = "full"
            /\ \A o \in Senders \ {s} : sent'[o] = sent[o] /\ outcome'[o] = outcome[o]
      ]_vars

(* C6 witness: a heartbeat was dropped: the queue is full, none of its   *)
(* entries carries the stamp of the sender's latest attempt.             *)
C6_Witness ==
    \E s \in Senders :
        /\ outcome[s] = "full"
        /\ spc[s] = "loop"
        /\ Len(health_queue) = maxsize
        /\ \A i \in 1..Len(health_queue) :
              health_queue[i] # <<s, timestamp(sent[s])>>

C8_ShutdownTerminates ==
    /\ afterStop.signalled ~> (mpc \in {"done", "raised"})
    /\ [](afterStop.gets <= 1 /\ afterStop.passes <= 1)

(* C8 witness: the loop has exited after one more get and one more pass, *)
(* with heartbeats still on the queue.                                   *)
C8_Witness ==
    /\ mpc = "done"
    /\ afterStop.signalled
    /\ afterStop.gets = 1 /\ afterStop.passes = 1
    /\ health_queue # <<>>

(* C9: at monitor start every name of process_names gets a HealthState   *)
(* with last = the start time; while the monitor keeps running every     *)
(* tracked worker, once silent, is eventually published; and every check *)
(* made on a worker that is more than MAX_MISSES * T behind records a    *)
(* miss, so the Stale comes within MAX_MISSES checks.                    *)
C9_SilentEscalates ==
    /\ [][(mpc = "start" /\ mpc' # "start") =>
            health_state' = [n \in Tracked |->
                               [name |-> n, last |-> now, misses |-> 0]]]_vars
    /\ (Running /\ \E n \in Tracked : Count(published, n) = 0)
          ~> (~Running \/ \A n \in Tracked : Count(published, n) > 0)
    /\ [](\A n \in DOMAIN health_state :
            /\ lag[n] <= health_state[n].misses
            /\ health_state[n].misses <= MAX_MISSES
            /\ health_state[n].misses = MAX_MISSES =>
                  (mpc = "reset" /\ process_names[idx] = n))

(* C9 witness: Stale has just been raised on the MAX_MISSES-th check in  *)
(* a row of a worker that was already MAX_MISSES * T behind, the other   *)
(* worker having been published before.                                  *)
C9_Witness ==
    \E n \in DOMAIN health_state :
        /\ mpc = "reset" /\ process_names[idx] = n
        /\ lag[n] = MAX_MISSES
        /\ \E m \in Tracked : m # n /\ Count(published, m) = 1

(* C10: report of a heartbeat stamped at clock reading c yields          *)
(* misses = 0 and last = c whatever the state was, and leaves the name.  *)
C10_ResetOnReport ==
    call.op = "report" =>
        health_state[UnitName] =
            [name |-> call.before.name, last |-> call.arg, misses |-> 0]

(* C10 witness: a report with an older stamp moved last backwards and    *)
(* cleared recorded misses.                                              *)
C10_Witness ==
    /\ call.op = "report"
    /\ call.before.misses > 0
    /\ call.before.last > call.arg
    /\ health_state[UnitName].last = call.arg


(* C11: check() on a HealthState whose last is unset raises no Stale and  *)
(* leaves name, last and misses as they were, whatever the clock reading  *)
(* and the misses.                                                        *)
C11_CheckUnsetNoop ==
    (call.op = "check" /\ call.before.last = None) =>
        /\ ~call.raised
        /\ health_state[UnitName].name = call.before.name
        /\ health_state[UnitName].last = call.before.last
        /\ health_state[UnitName].misses = call.before.misses

(* check() ran on an unset state one miss short of MAX_MISSES, at a clock *)
(* reading beyond every threshold.                                        *)
C11_Witness ==
    /\ call.op = "check"
    /\ call.before.last = None
    /\ call.before.misses = MAX_MISSES - 1
    /\ call.arg > MAX_MISSES * MISSED_THRESHHOLD
    /\ health_state[UnitName] = call.before

(* C12: a Stale raised by a check takes the loop into its except branch   *)
(* for that worker; the branch resets and publishes the worker, then the  *)
(* for loop goes on with the next tracked worker, and the iteration ends  *)
(* only after the last one; the monitor is still in its loop afterwards,  *)
(* and no step of the checks or of the branch raises out of __call__.     *)
C12_StaleHandled ==
    [][/\ (mpc = "check" /\ stales' # stales) =>
             (mpc' = "reset" /\ idx' = idx)
       /\ mpc = "reset" =>
             (mpc' \in {"reset", "send"} /\ idx' = idx)
       /\ (mpc = "reset" /\ mpc' = "send") =>
             health_state'[process_names[idx]].misses = 0
       /\ (mpc = "send" /\ mpc' # "send") =>
             /\ Count(published', process_names[idx]) =
                   Count(published, process_names[idx]) + 1
             /\ IF idx < Len(process_names)
                THEN mpc' = "check" /\ idx' = idx + 1
                ELSE mpc' = "while"
       /\ mpc \in {"check", "reset", "send"} =>
             mpc' \in {"check", "reset", "send", "while"}
       /\ (mpc # "while" /\ mpc' = "while") =>
             (mpc \in {"start", "check", "send"} /\
              (mpc # "start" => idx = Len(process_names)))
      ]_vars

(* C12 witness: in the one pass made after the signal the first worker   *)
(* went stale, was reset and published, and the last worker, checked     *)
(* next in that pass, went stale too and is about to be published.       *)
C12_Witness ==
    /\ afterStop.passes = 1
    /\ afterStop.sends = <<process_names[1]>>
    /\ mpc = "send" /\ idx = Len(process_names)
    /\ \A n \in Tracked : health_state[n].misses = 0

(* C13: the run flag is true until the handler runs, the handler leaves  *)
(* it false, no step sets it back to true, and the handler run again     *)
(* when the flag is already false changes nothing at all.                *)
C13_StopLinear ==
    /\ [](~afterStop.signalled => run)
    /\ [][stop => ~run']_vars
    /\ [][~run => ~run']_vars
    /\ [][(stop /\ ~run) => UNCHANGED vars]_vars

(* C13 witness: the signal was delivered, the flag is false, the monitor *)
(* is still inside its loop and the signal can be delivered again.       *)
C13_Witness ==
    /\ afterStop.signalled
    /\ ~run
    /\ mpc = "check"
    /\ ENABLED stop

(* C14: a check step changes the checked worker's misses by 0 or by +1   *)
(* and no other worker's; and whenever the loop is between iterations    *)
(* (at its while test, at the get, or after leaving the loop) every      *)
(* tracked worker has 0 <= misses < MAX_MISSES.                          *)
C14_BoundedMisses ==
    /\ [][(mpc = "check" /\ (mpc' # "check" \/ idx' # idx)) =>
            \A n \in Tracked :
               LET d == health_state'[n].misses - health_state[n].misses
               IN  IF n = process_names[idx] THEN d \in {0, 1} ELSE d = 0]_vars
    /\ [](mpc \in {"while", "get", "done", "raised"} =>
            \A n \in DOMAIN health_state :
               0 <= health_state[n].misses /\ health_state[n].misses < MAX_MISSES)

(* C14 witness: a worker was first checked when it was already more than *)
(* MAX_MISSES windows behind, and that check recorded one miss only; the *)
(* iteration is over.                                                    *)
C14_Witness ==
    \E n \in DOMAIN health_state :
        /\ mpc = "while"
        /\ lag[n] = 1
        /\ health_state[n].misses = 1
        /\ now - health_state[n].last > MAX_MISSES * MISSED_THRESHHOLD

(* C15: a worker's last changes only in the step that reports a dequeued *)
(* heartbeat of that worker or in the reset of its except branch; its    *)
(* misses go down only in those two steps, and then to 0; a step that    *)
(* records a miss without raising Stale leaves last as it was; and the   *)
(* name of a HealthState is always the key it is stored under.           *)
C15_MutationDiscipline ==
    [][\A n \in (DOMAIN health_state) \cap (DOMAIN health_state') :
         LET s == health_state[n]
             t == health_state'[n]
             reported == /\ mpc = "get" /\ mpc' = "check"
                         /\ health_queue # <<>>
                         /\ Head(health_queue)[1] = n
             handled == /\ mpc = "reset" /\ mpc' = "send"
                        /\ process_names[idx] = n
         IN  /\ s.name = n /\ t.name = n
             /\ t.last # s.last => (reported \/ handled)
             /\ t.misses < s.misses => (t.misses = 0 /\ (reported \/ handled))
             /\ (t.misses = s.misses + 1 /\ stales'[n] = stales[n]) =>
                   t.last = s.last
      ]_vars

(* C15 witness: one worker carries misses on top of the last it got from *)
(* an accepted report, while another one was reset after its Stale.      *)
C15_Witness ==
    \E n, m \in DOMAIN health_state :
        /\ n # m
        /\ health_state[n].misses = MAX_MISSES - 1
        /\ health_state[n].last > MaxBoot
        /\ Len(stales[m]) = 1 /\ Count(published, m) = 1
        /\ health_state[m].misses = 0
        /\ health_state[m].last >= stales[m][1]

(* C16: a sender whose worker is not in the serving stage makes no send  *)
(* attempt and puts nothing on the queue, and its next test of the while *)
(* condition ends the task; a task ends only when its worker is not      *)
(* serving, and an ended task stays ended.                               *)
C16_SenderStops ==
    /\ [][\A s \in Senders :
            stage[s] # "SERVING" =>
               /\ spc[s] # "idle" => sent'[s] = sent[s]
               /\ outcome'[s] = outcome[s]
               /\ ~(/\ Len(health_queue') > Len(health_queue)
                    /\ health_queue'[Len(health_queue')][1] = s)]_vars
    /\ [][\A s \in Senders :
            /\ (spc[s] # "done" /\ spc'[s] = "done") =>
                  (spc[s] = "loop" /\ stage[s] # "SERVING")
            /\ spc[s] = "done" => spc'[s] = "done"]_vars
    /\ [](\A s \in Senders :
            (spc[s] = "loop" /\ stage[s] # "SERVING") => ENABLED SenderExit(s))

(* C16 witness: a task that had put a heartbeat on the queue has ended,  *)
(* and two report intervals have passed since its last attempt.          *)
C16_Witness ==
    \E s \in Senders :
        /\ spc[s] = "done"
        /\ outcome[s] = "put"
        /\ now - sent[s] > 2 * REPORT_INTERVAL

(* C17: a send attempt of a sender (its heartbeat put or dropped) is     *)
(* made more than REPORT_INTERVAL after its previous attempt, dropped or *)
(* not, and restarts the interval; before its first attempt the sender   *)
(* holds its start time, so the first attempt comes more than            *)
(* REPORT_INTERVAL after the task started.                               *)
C17_SenderCadence ==
    /\ [][\A s \in Senders :
            LET attempt ==
                  /\ spc[s] = "loop"
                  /\ \/ sent'[s] # sent[s]
                     \/ outcome'[s] # outcome[s]
                     \/ /\ Len(health_queue') > Len(health_queue)
                        /\ health_queue'[Len(health_queue')][1] = s
            IN  attempt => /\ now - sent[s] > REPORT_INTERVAL
                           /\ sent'[s] = now
                           /\ outcome'[s] \in {"put", "full"}]_vars
    /\ [](\A s \in Senders :
            /\ spc[s] = "idle" => outcome[s] = "none"
            /\ (spc[s] = "loop" /\ outcome[s] = "none") => sent[s] <= MaxBoot
            /\ outcome[s] # "none" => sent[s] > REPORT_INTERVAL)

(* C17 witness: the second attempt of a sender was dropped; it was made  *)
(* more than two intervals after the start.                              *)
C17_Witness ==
    \E s \in Senders :
        /\ outcome[s] = "full"
        /\ sent[s] > 2 * REPORT_INTERVAL
        /\ \E i \in 1..Len(health_queue) : health_queue[i][1] = s

(* C18 as claimed: only the get of an iteration takes a heartbeat off    *)
(* the queue, and one at most; there is one get per iteration; and       *)
(* whether it found the queue empty or not, the loop goes on to check    *)
(* the first tracked worker and then every other one before the          *)
(* iteration ends.                                                       *)
C18_SteadyChecks ==
    [][/\ Len(health_queue') >= Len(health_queue) - 1
       /\ Len(health_queue') < Len(health_queue) => mpc = "get"
       /\ (mpc # "get" /\ mpc' = "get") => mpc = "while"
       /\ (mpc = "get" /\ mpc' # "get") => (mpc' = "check" /\ idx' = 1)
       /\ (mpc = "check" /\ (mpc' # "check" \/ idx' # idx)) =>
             \/ mpc' = "reset" /\ idx' = idx
             \/ mpc' = "check" /\ idx' = idx + 1
             \/ mpc' = "while" /\ idx = Len(process_names)
      ]_vars

(* C19: the step that dequeues a heartbeat of tracked worker a sets a's  *)
(* last to the heartbeat's time and a's misses to 0, and leaves the      *)
(* HealthState of every other tracked worker as it was; a sender's step  *)
(* changes no HealthState at all.                                        *)
C19_ReportIsolated ==
    [][/\ (mpc = "get" /\ mpc' = "check" /\ health_queue # <<>>) =>
             LET a == Head(health_queue)[1]
                 ts == Head(health_queue)[2]
             IN  /\ health_state'[a] =
                       [name |-> a, last |-> fromtimestamp(ts), misses |-> 0]
                 /\ \A n \in Tracked \ {a} : health_state'[n] = health_state[n]
       /\ (sent' # sent \/ spc' # spc \/ stage' # stage) =>
             health_state' = health_state
      ]_vars

(* C19 witness: a heartbeat of a worker that keeps reporting has just    *)
(* been dequeued, while the other tracked worker, silent since the       *)
(* start, carries MAX_MISSES - 1 misses.                                 *)
C19_Witness ==
    \E a, b \in DOMAIN health_state :
        /\ a # b
        /\ mpc = "check" /\ idx = 1
        /\ health_state[a].last = now
        /\ now > 2 * REPORT_INTERVAL
        /\ health_state[b].misses = MAX_MISSES - 1
        /\ health_state[b].last <= MaxBoot

====
